---- MODULE Spec2Model ----
(***************************************************************************)
(* TLA+ model of pdftext/extraction.py: the page-range partitioning and   *)
(* parallel extraction of _get_pages, the three entry points that call    *)
(* it, and the tree assembly of dictionary_output / _process_span.        *)
(*                                                                         *)
(* Two specifications:                                                     *)
(*   Spec     the extraction pipeline (entry point, _process_pdf,          *)
(*            _get_pages with its pool of workers);                        *)
(*   SpecAsm  the assembly loop of dictionary_output over the pages that   *)
(*            _get_pages returned.                                         *)
(***************************************************************************)
EXTENDS Integers, Sequences, FiniteSets

\* ------------------------------------------------------------------ bounds
\* pages of the document (len(pdf_doc))
NumPages == 5
\* largest value of the workers argument
MaxWorkers == 4
\* largest value of settings.WORKER_PAGE_THRESHOLD
MaxThreshold == 2

\* ------------------------------------------------------------ Python values
\* Python's None, and a value that is not None
None == <<>>
Some(v) == <<v>>
Val(opt) == opt[1]

Min(a, b) == IF a <= b THEN a ELSE b

\* math.ceil(a / b) for a >= 0, b > 0
CeilDiv(a, b) == (a + b - 1) \div b

\* seq[lo:hi] for 0 <= lo <= hi: Python clips both ends to len(seq)
Slice(seq, lo, hi) == SubSeq(seq, Min(lo, Len(seq)) + 1, Min(hi, Len(seq)))

RECURSIVE Concat(_)
\* [x for sublist in lists for x in sublist]
Concat(lists) ==
    IF lists = <<>> THEN <<>> ELSE Head(lists) \o Concat(Tail(lists))

\* range(start, start + n * step, step) as a list
PyRange(start, n, step) == [i \in 1..n |-> start + (i - 1) * step]

\* the page_range arguments tried: None, or a range of distinct page indices
\* of the document, ascending, descending or with a stride
PageRanges ==
    { PyRange(s, n, st) : s \in 0..(NumPages - 1), n \in 0..NumPages, st \in {1, -1, 2} }
    \cap UNION { [1..n -> 0..(NumPages - 1)] : n \in 0..NumPages }

PageRangeArgs == {None} \cup { Some(r) : r \in PageRanges }

\* the workers arguments tried: None, or an integer (0 and -1 included)
WorkerArgs == {None} \cup { Some(w) : w \in (-1)..MaxWorkers }

EntryPoints == {"plain_text_output", "paginated_plain_text_output", "dictionary_output"}

\* ------------------------------------------------------ external collaborators
\* get_pdfium_chars(pdf_doc, page_range[, flatten_pdf]): the raw glyphs of each
\* page of page_range, in page_range's order
GetPdfiumChars(range) == [i \in 1..Len(range) |-> [glyphs_of |-> range[i]]]

\* inference(text_chars, model): one PageResult per input page, in input order
Inference(text_chars) ==
    [i \in 1..Len(text_chars) |-> [page |-> text_chars[i].glyphs_of]]

\* _get_page_range(pdf_doc, model, page_range)
GetPageRange(range) == Inference(GetPdfiumChars(range))

\* ------------------------------------------------------ _get_pages, pure parts
\* line 39-40: page_range defaults to range(len(pdf_doc))
ResolvePageRange(arg) == IF arg = None THEN PyRange(0, NumPages, 1) ELSE Val(arg)

\* CapWorkers with the cap rounded up instead of down
CapWorkersCeil(w, n, t) == IF w = None THEN None ELSE Some(Min(Val(w), CeilDiv(n, t)))

\* line 42-43: workers = min(workers, len(page_range) // WORKER_PAGE_THRESHOLD)
CapWorkers(w, n, t) == IF w = None THEN None ELSE Some(Min(Val(w), n \div t))

\* line 45: workers is None or workers <= 1
SinglePath(w) == IF w = None THEN TRUE ELSE Val(w) <= 1

\* PagesPerWorker with floor division instead of math.ceil
PagesPerWorkerFloor(n, w) == n \div w

\* line 52
PagesPerWorker(n, w) == CeilDiv(n, w)

\* line 53: [page_range[i * ppw:(i + 1) * ppw] for i in range(workers)]
PageRangeChunks(range, w) ==
    [i \in 1..w |->
        Slice(range, (i - 1) * PagesPerWorker(Len(range), w),
                     i * PagesPerWorker(Len(range), w))]

\* -------------------------------------------------------------------- state
VARIABLES
    entry,            \* the entry point called
    flatten_pdf,      \* its flatten_pdf argument
    workers_arg,      \* its workers argument
    page_range_arg,   \* its page_range argument
    threshold,        \* settings.WORKER_PAGE_THRESHOLD
    pc,               \* where the call is
    init_forms_calls, \* calls of pdf.init_forms() on the parent document so far
    page_range,       \* _get_pages' page_range after line 40
    workers,          \* _get_pages' workers after line 43
    chunks,           \* the page lists handed to get_pdfium_chars, in order
    submits,          \* submits[i]: times chunk i was submitted to the pool
    status,           \* status[i]: the future of chunk i
    results,          \* results[i]: what the future of chunk i holds
    next,             \* the chunk whose result list(executor.map(...)) awaits
    pages,            \* the per-chunk results collected so far (line 56)
    returned,         \* what _get_pages returned, None before and on failure
    keep_chars,       \* dictionary_output's keep_chars argument
    sort,             \* dictionary_output's sort argument
    out,              \* dictionary_output's pages, edited in place (lines 90-106)
    page_idx          \* the page the loop of line 90 is at

vars == <<entry, flatten_pdf, workers_arg, page_range_arg, threshold, pc,
          init_forms_calls, page_range, workers, chunks, submits, status,
          results, next, pages, returned, keep_chars, sort, out, page_idx>>

inputs == <<entry, flatten_pdf, workers_arg, page_range_arg, threshold>>
pool == <<submits, status, results, next, pages>>
asm == <<keep_chars, sort, out, page_idx>>

Init ==
    /\ entry \in EntryPoints
    /\ flatten_pdf \in BOOLEAN
    /\ workers_arg \in WorkerArgs
    /\ page_range_arg \in PageRangeArgs
    /\ threshold \in 1..MaxThreshold
    /\ pc = "call"
    /\ init_forms_calls = 0
    /\ page_range = <<>>
    /\ workers = None
    /\ chunks = <<>>
    /\ submits = <<>>
    /\ status = <<>>
    /\ results = <<>>
    /\ next = 1
    /\ pages = <<>>
    /\ returned = None
    /\ keep_chars = FALSE
    /\ sort = FALSE
    /\ out = <<>>
    /\ page_idx = 1

\* _process_pdf (lines 15-26), called by plain_text_output (line 64) and
\* dictionary_output (line 88) before _get_pages
ProcessPdf ==
    /\ pc = "call"
    /\ entry \in {"plain_text_output", "dictionary_output"}
    /\ init_forms_calls' = IF flatten_pdf THEN init_forms_calls + 1 ELSE init_forms_calls
    /\ pc' = "get_pages"
    /\ UNCHANGED <<inputs, asm, page_range, workers, chunks, pool, returned>>

\* paginated_plain_text_output called directly (line 69-70): it goes straight
\* to _get_pages with the document it was given
PaginatedEnter ==
    /\ pc = "call"
    /\ entry = "paginated_plain_text_output"
    /\ pc' = "get_pages"
    /\ UNCHANGED <<inputs, asm, init_forms_calls, page_range, workers, chunks, pool, returned>>

\* _get_pages lines 39-45, non-parallel branch taken: the caller is about to
\* extract the whole page_range itself
PlanSingle ==
    /\ pc = "get_pages"
    /\ LET range == ResolvePageRange(page_range_arg)
           w == CapWorkers(workers_arg, Len(range), threshold)
       IN /\ SinglePath(w)
          /\ page_range' = range
          /\ workers' = w
          /\ chunks' = <<range>>
    /\ pc' = "single"
    /\ UNCHANGED <<inputs, asm, init_forms_calls, pool, returned>>

\* lines 46-47: get_pdfium_chars and inference in the caller's own context
ExtractSingle ==
    /\ pc = "single"
    /\ returned' = Some(Inference(GetPdfiumChars(page_range)))
    /\ pc' = "returned"
    /\ UNCHANGED <<inputs, asm, init_forms_calls, page_range, workers, chunks, pool>>

\* lines 46-47 raising: the exception leaves _get_pages and the entry point
ExtractSingleRaise ==
    /\ pc = "single"
    /\ pc' = "raised"
    /\ UNCHANGED <<inputs, asm, init_forms_calls, page_range, workers, chunks, pool, returned>>

\* lines 49-56: the chunks are built and executor.map submits every one of them
Dispatch ==
    /\ pc = "get_pages"
    /\ LET range == ResolvePageRange(page_range_arg)
           w == CapWorkers(workers_arg, Len(range), threshold)
       IN /\ ~SinglePath(w)
          /\ page_range' = range
          /\ workers' = w
          /\ chunks' = PageRangeChunks(range, Val(w))
          /\ submits' = [i \in 1..Val(w) |-> 1]
          /\ status' = [i \in 1..Val(w) |-> "pending"]
          /\ results' = [i \in 1..Val(w) |-> <<>>]
    /\ next' = 1
    /\ pages' = <<>>
    /\ pc' = "parallel"
    /\ UNCHANGED <<inputs, asm, init_forms_calls, returned>>

\* a pool process picks chunk i up (max_workers = workers: none has to wait)
WorkerStart(i) ==
    /\ pc \in {"parallel", "shutdown"}
    /\ status[i] = "pending"
    /\ status' = [status EXCEPT ![i] = "running"]
    /\ UNCHANGED <<inputs, asm, pc, init_forms_calls, page_range, workers, chunks,
                   submits, results, next, pages, returned>>

\* WorkerFinish with the result kept in order of completion instead of under
\* the chunk's own index
WorkerFinishByArrival(i) ==
    /\ pc \in {"parallel", "shutdown"}
    /\ status[i] = "running"
    /\ status' = [status EXCEPT ![i] = "done"]
    /\ results' = [results EXCEPT
                    ![Cardinality({j \in DOMAIN status : status[j] = "done"}) + 1] =
                        GetPageRange(chunks[i])]
    /\ UNCHANGED <<inputs, asm, pc, init_forms_calls, page_range, workers, chunks,
                   submits, next, pages, returned>>

\* _get_page_range(pdf_doc, model, chunk i) returns in its worker
WorkerFinish(i) ==
    /\ pc \in {"parallel", "shutdown"}
    /\ status[i] = "running"
    /\ status' = [status EXCEPT ![i] = "done"]
    /\ results' = [results EXCEPT ![i] = GetPageRange(chunks[i])]
    /\ UNCHANGED <<inputs, asm, pc, init_forms_calls, page_range, workers, chunks,
                   submits, next, pages, returned>>

\* _get_page_range raises in its worker: the future holds the exception
WorkerRaise(i) ==
    /\ pc \in {"parallel", "shutdown"}
    /\ status[i] = "running"
    /\ status' = [status EXCEPT ![i] = "failed"]
    /\ UNCHANGED <<inputs, asm, pc, init_forms_calls, page_range, workers, chunks,
                   submits, results, next, pages, returned>>

\* line 56: list(executor.map(...)) takes the result of the next chunk, in
\* submission order
Collect ==
    /\ pc = "parallel"
    /\ next <= Len(status)
    /\ status[next] = "done"
    /\ pages' = Append(pages, results[next])
    /\ next' = next + 1
    /\ UNCHANGED <<inputs, asm, pc, init_forms_calls, page_range, workers, chunks,
                   submits, status, results, returned>>

\* CollectRaise that skips the failed chunk and goes on with the others
CollectSkipFailed ==
    /\ pc = "parallel"
    /\ next <= Len(status)
    /\ status[next] = "failed"
    /\ next' = next + 1
    /\ UNCHANGED <<inputs, asm, pc, init_forms_calls, page_range, workers, chunks,
                   submits, status, results, pages, returned>>

\* line 56: the next chunk's future holds an exception: it is re-raised in the
\* caller, the futures not yet started are cancelled, and the with block waits
\* for the running ones
CollectRaise ==
    /\ pc = "parallel"
    /\ next <= Len(status)
    /\ status[next] = "failed"
    /\ status' = [i \in DOMAIN status |->
                    IF status[i] = "pending" THEN "cancelled" ELSE status[i]]
    /\ pc' = "shutdown"
    /\ UNCHANGED <<inputs, asm, init_forms_calls, page_range, workers, chunks,
                   submits, results, next, pages, returned>>

\* line 55: the with block is left with the exception once no worker runs
ShutdownRaise ==
    /\ pc = "shutdown"
    /\ \A i \in DOMAIN status : status[i] # "running"
    /\ pc' = "raised"
    /\ UNCHANGED <<inputs, asm, init_forms_calls, page_range, workers, chunks, pool, returned>>

\* lines 58-60: every result is in; ordered_pages is returned
ReturnOrdered ==
    /\ pc = "parallel"
    /\ next = Len(status) + 1
    /\ returned' = Some(Concat(pages))
    /\ pc' = "returned"
    /\ UNCHANGED <<inputs, asm, init_forms_calls, page_range, workers, chunks, pool>>

\* the entry point turns the pages into its output and returns
\* (lines 66, 71-74, 90-108; the tree dictionary_output builds is SpecAsm's)
EntryReturn ==
    /\ pc = "returned"
    /\ pc' = "done"
    /\ UNCHANGED <<inputs, asm, init_forms_calls, page_range, workers, chunks, pool, returned>>

Next ==
    \/ ProcessPdf
    \/ PaginatedEnter
    \/ PlanSingle
    \/ ExtractSingle
    \/ ExtractSingleRaise
    \/ Dispatch
    \/ \E i \in DOMAIN status : WorkerStart(i)
    \/ \E i \in DOMAIN status : WorkerFinish(i)
    \/ \E i \in DOMAIN status : WorkerRaise(i)
    \/ Collect
    \/ CollectRaise
    \/ ShutdownRaise
    \/ ReturnOrdered
    \/ EntryReturn

Spec == Init /\ [][Next]_vars

\* ---------------------------------------------------------------- assembly
\* blocks of a raw page tried, and pages handed to dictionary_output
MaxBlocks == 2
MaxAsmPages == 2

\* a dict without the keys outside keys (lines 93-95, 98-100)
KeepKeys(d, keys) == [k \in (DOMAIN d) \cap keys |-> d[k]]

\* del d[key] (line 81)
DelKey(d, key) == [k \in (DOMAIN d) \ {key} |-> d[k]]

\* unnormalize_bbox(bbox, page_width, page_height): x by the width, y by the
\* height. Coordinates are kept as integers, in tenths of the unit.
UnnormalizeBbox(bbox, page_width, page_height) ==
    <<bbox[1] * page_width, bbox[2] * page_height,
      bbox[3] * page_width, bbox[4] * page_height>>

RECURSIVE PostprocessText(_)
\* postprocess_text(text): a run of spaces collapses to its first one
PostprocessText(text) ==
    IF Len(text) <= 1 THEN text
    ELSE IF text[1] = " " /\ text[2] = " " THEN PostprocessText(Tail(text))
    ELSE <<text[1]>> \o PostprocessText(Tail(text))

\* handle_hyphens(text, keep_hyphens): a line-wrap hyphen at the end of the
\* text goes with its break unless keep_hyphens
HandleHyphens(text, keep_hyphens) ==
    IF ~keep_hyphens /\ Len(text) >= 2
          /\ text[Len(text) - 1] = "-" /\ text[Len(text)] = "\n"
    THEN SubSeq(text, 1, Len(text) - 2)
    ELSE text

\* reading-order key of a block: its top edge, then its left edge
Before(a, b) ==
    \/ a.bbox[2] < b.bbox[2]
    \/ a.bbox[2] = b.bbox[2] /\ a.bbox[1] < b.bbox[1]

RECURSIVE InsertBlock(_, _)
InsertBlock(sorted, b) ==
    IF sorted = <<>> THEN <<b>>
    ELSE IF Before(b, Head(sorted)) THEN <<b>> \o sorted
    ELSE <<Head(sorted)>> \o InsertBlock(Tail(sorted), b)

RECURSIVE SortBlocks(_)
\* sort_blocks(blocks): top to bottom, then left to right, stable
SortBlocks(blocks) ==
    IF blocks = <<>> THEN <<>>
    ELSE InsertBlock(SortBlocks(SubSeq(blocks, 1, Len(blocks) - 1)), blocks[Len(blocks)])

\* ProcessSpan that leaves the chars as they came (never deleted, never scaled)
ProcessSpanCharsUntouched(span, page_width, page_height, keep) ==
    [[span EXCEPT !.bbox = UnnormalizeBbox(span.bbox, page_width, page_height)]
        EXCEPT !.text = HandleHyphens(PostprocessText(span.text), TRUE)]

\* _process_span (lines 77-84)
ProcessSpan(span, page_width, page_height, keep) ==
    LET boxed == [span EXCEPT !.bbox = UnnormalizeBbox(span.bbox, page_width, page_height)]
        cleaned == [boxed EXCEPT !.text = HandleHyphens(PostprocessText(boxed.text), TRUE)]
    IN IF ~keep
       THEN DelKey(cleaned, "chars")
       ELSE [cleaned EXCEPT !.chars =
                [i \in 1..Len(cleaned.chars) |->
                    [cleaned.chars[i] EXCEPT !.bbox =
                        UnnormalizeBbox(cleaned.chars[i].bbox, page_width, page_height)]]]

\* AssembleLine scaling the line's box with width and height swapped
AssembleLineSwapped(line, page_width, page_height, keep) ==
    LET pruned == KeepKeys(line, {"spans", "bbox"})
        boxed == [pruned EXCEPT !.bbox = UnnormalizeBbox(pruned.bbox, page_height, page_width)]
    IN [boxed EXCEPT !.spans =
           [i \in 1..Len(boxed.spans) |->
               ProcessSpan(boxed.spans[i], page_width, page_height, keep)]]

\* the body of the loop over a block's lines (lines 98-103)
AssembleLine(line, page_width, page_height, keep) ==
    LET pruned == KeepKeys(line, {"spans", "bbox"})
        boxed == [pruned EXCEPT !.bbox = UnnormalizeBbox(pruned.bbox, page_width, page_height)]
    IN [boxed EXCEPT !.spans =
           [i \in 1..Len(boxed.spans) |->
               ProcessSpan(boxed.spans[i], page_width, page_height, keep)]]

\* AssembleBlock that drops no key of the block
AssembleBlockUnpruned(block, page_width, page_height, keep) ==
    LET boxed == [block EXCEPT !.bbox = UnnormalizeBbox(block.bbox, page_width, page_height)]
    IN [boxed EXCEPT !.lines =
           [i \in 1..Len(boxed.lines) |->
               AssembleLine(boxed.lines[i], page_width, page_height, keep)]]

\* the body of the loop over a page's blocks (lines 93-103)
AssembleBlock(block, page_width, page_height, keep) ==
    LET pruned == KeepKeys(block, {"lines", "bbox"})
        boxed == [pruned EXCEPT !.bbox = UnnormalizeBbox(pruned.bbox, page_width, page_height)]
    IN [boxed EXCEPT !.lines =
           [i \in 1..Len(boxed.lines) |->
               AssembleLine(boxed.lines[i], page_width, page_height, keep)]]

\* the body of the loop over the pages (lines 91-106)
AssemblePageTree(page, keep, sorted) ==
    LET done == [page EXCEPT !.blocks =
                    [i \in 1..Len(page.blocks) |->
                        AssembleBlock(page.blocks[i], page.width, page.height, keep)]]
    IN IF sorted THEN [done EXCEPT !.blocks = SortBlocks(done.blocks)] ELSE done

\* ---- the raw PageResults tried: what inference returns, boxes normalized
CharA == [bbox |-> <<1, 2, 2, 3>>, char |-> "a", rotation |-> 0]
CharB == [bbox |-> <<2, 2, 3, 3>>, char |-> "b"]

SpanPlain ==
    [bbox |-> <<1, 2, 3, 3>>, text |-> <<"b", " ", " ", "a">>, chars |-> <<CharB, CharA>>]
SpanFont ==
    [bbox |-> <<6, 6, 8, 7>>, text |-> <<"a", "b", "-", "\n">>, chars |-> <<CharA, CharB>>,
     font |-> "Times"]
SpanNoChars ==
    [bbox |-> <<8, 6, 9, 7>>, text |-> <<>>, chars |-> <<>>]

LinePlain == [bbox |-> <<1, 2, 4, 3>>, spans |-> <<SpanPlain>>]
LineTagged ==
    [bbox |-> <<6, 6, 9, 7>>, spans |-> <<SpanFont, SpanNoChars>>, words |-> "w"]

\* a tagged block low on the page and a plain one above it
BlockTagged ==
    [bbox |-> <<5, 6, 9, 9>>, lines |-> <<LineTagged, LinePlain>>,
     block_type |-> "Text", confidence |-> "high"]
BlockPlain == [bbox |-> <<1, 2, 4, 4>>, lines |-> <<LinePlain>>]

RawBlocks == {BlockTagged, BlockPlain}

\* page sizes: portrait and landscape pages alternate through the document
PageDims == <<<<600, 800>>, <<300, 200>>>>
DimsOf(first, i) == PageDims[((first + i) % 2) + 1]

BlockLists == UNION { [1..n -> RawBlocks] : n \in 0..MaxBlocks }

\* the lists of n raw pages tried
RawPageLists(n) ==
    { [i \in 1..n |->
          [width |-> DimsOf(first, i)[1], height |-> DimsOf(first, i)[2], blocks |-> bl[i]]] :
        first \in 0..1, bl \in [1..n -> BlockLists] }

\* dictionary_output at line 90: _get_pages has returned the raw pages of
\* pages 0..n-1 (here by its non-parallel path) and the loop is about to start
InitAsm ==
    /\ entry = "dictionary_output"
    /\ flatten_pdf = FALSE
    /\ workers_arg = None
    /\ threshold = 1
    /\ \E n \in 0..MaxAsmPages :
          /\ page_range_arg = Some(PyRange(0, n, 1))
          /\ page_range = PyRange(0, n, 1)
          /\ chunks = <<PyRange(0, n, 1)>>
          /\ returned \in { Some(ps) : ps \in RawPageLists(n) }
    /\ init_forms_calls = 0
    /\ workers = None
    /\ submits = <<>>
    /\ status = <<>>
    /\ results = <<>>
    /\ next = 1
    /\ pages = <<>>
    /\ keep_chars \in BOOLEAN
    /\ sort \in BOOLEAN
    /\ out = Val(returned)
    /\ page_idx = 1
    /\ pc = "assemble"

pipeline == <<inputs, init_forms_calls, page_range, workers, chunks, pool, returned>>

\* one turn of the loop of line 90: the page's tree is rewritten in place
AssemblePage ==
    /\ pc = "assemble"
    /\ page_idx <= Len(out)
    /\ out' = [out EXCEPT ![page_idx] = AssemblePageTree(out[page_idx], keep_chars, sort)]
    /\ page_idx' = page_idx + 1
    /\ UNCHANGED <<pipeline, pc, keep_chars, sort>>

\* line 108: return pages
DictionaryReturn ==
    /\ pc = "assemble"
    /\ page_idx = Len(out) + 1
    /\ pc' = "done"
    /\ UNCHANGED <<pipeline, asm>>

NextAsm ==
    \/ AssemblePage
    \/ DictionaryReturn

SpecAsm == InitAsm /\ [][NextAsm]_vars

\* ------------------------------------------------------------- properties
\* _get_pages is past line 45: the chunks are built
Planned == pc \notin {"call", "get_pages"}

\* the multi-chunk path was taken
Parallel == Planned /\ ~SinglePath(workers)

\* the workers argument is an integer satisfying the comparison
WorkersArgAtLeast(k) == IF workers_arg = None THEN FALSE ELSE Val(workers_arg) >= k

\* C1: the chunks _get_pages builds, concatenated in the order they are built,
\* are exactly page_range (nothing missing, duplicated or reordered), and in
\* the non-parallel path the single chunk is page_range itself.
C1_ChunksPartitionPageRange ==
    Planned =>
        /\ page_range = ResolvePageRange(page_range_arg)
        /\ Concat(chunks) = page_range
        /\ SinglePath(workers) => chunks = <<page_range>>

\* C1 witness: a descending page_range cut into three or more chunks
C1_Witness ==
    /\ Parallel
    /\ Len(chunks) >= 3
    /\ Len(page_range) >= 4
    /\ page_range[1] > page_range[2]

\* C2: with a non-empty page_range and workers >= 1, no chunk is empty.
C2_NoEmptyChunk ==
    (Planned /\ Len(page_range) > 0 /\ WorkersArgAtLeast(1)) =>
        \A i \in DOMAIN chunks : chunks[i] # <<>>

C4_SmallRangeSingleChunk ==
    (Planned /\ WorkersArgAtLeast(2) /\ Len(page_range) < 2 * threshold) =>
        /\ SinglePath(workers)
        /\ chunks = <<page_range>>
        /\ submits = <<>>
        /\ status = <<>>
        /\ pc \notin {"parallel", "shutdown"}
        /\ pc \in {"returned", "done"} => returned = Some(GetPageRange(page_range))

\* C4 witness: workers = MaxWorkers, a page_range one page short of twice the
\* threshold and longer than the threshold, extracted by the caller
C4_Witness ==
    /\ pc = "returned"
    /\ workers_arg = Some(MaxWorkers)
    /\ Len(page_range) = 2 * threshold - 1
    /\ Len(page_range) > threshold

\* C5: in the parallel path there are exactly effective_workers chunks, every
\* chunk but the last has pages_per_worker pages, and only the last may be
\* shorter.
C5_ChunkSizes ==
    Parallel =>
        LET n == Len(page_range)
            effective_workers == Min(Val(workers_arg), n \div threshold)
            pages_per_worker == CeilDiv(n, effective_workers)
        IN /\ Len(chunks) = effective_workers
           /\ \A i \in 1..(effective_workers - 1) : Len(chunks[i]) = pages_per_worker
           /\ Len(chunks[effective_workers]) <= pages_per_worker

\* C6: with flatten_pdf set, by the time _get_pages starts extracting (in the
\* caller or in workers) pdf.init_forms() has been called exactly once on the
\* parent document, and it is never called again.
C6_FlattenOnceBeforeExtraction ==
    (flatten_pdf /\ Planned) => init_forms_calls = 1

\* C7: once a worker has raised, _get_pages never returns a list, whole or
\* partial; the call can only end raised; and no chunk is submitted twice.
C7_WorkerFailureAborts ==
    /\ (\E i \in DOMAIN status : status[i] = "failed") =>
            /\ returned = None
            /\ pc \in {"parallel", "shutdown", "raised"}
            /\ ~ENABLED Next => pc = "raised"
    /\ \A i \in DOMAIN submits : submits[i] <= 1

\* C7 witness: the call has ended raised after one worker failed and another
\* had its result ready
C7_Witness ==
    /\ pc = "raised"
    /\ Len(status) >= 3
    /\ \E i \in DOMAIN status : status[i] = "failed"
    /\ \E i \in DOMAIN status : status[i] = "done" /\ results[i] # <<>>

\* ------------------------------------------------- properties of the assembly
\* the raw pages dictionary_output got from _get_pages
Raw == Val(returned)

\* the pages the loop of line 90 has been through
Assembled == IF pc \in {"assemble", "done"} THEN 1..(page_idx - 1) ELSE {}

\* a normalized box brought to pixel space once with this width and height
PixelBox(b, w, h) == <<b[1] * w, b[2] * h, b[3] * w, b[4] * h>>

\* the orders in which n raw blocks may come back: as they were, or any order
\* when sort is set
BlockOrders(n) ==
    IF sort
    THEN { f \in [1..n -> 1..n] : \A i, j \in 1..n : f[i] = f[j] => i = j }
    ELSE { [i \in 1..n |-> i] }

\* page p came back with every block of its raw page, each satisfying Ok
\* against the raw block it comes from
PageMatches(p, Ok(_, _, _, _)) ==
    LET n == Len(Raw[p].blocks)
    IN /\ DOMAIN out[p] = DOMAIN Raw[p]
       /\ out[p].width = Raw[p].width
       /\ out[p].height = Raw[p].height
       /\ Len(out[p].blocks) = n
       /\ \E f \in BlockOrders(n) :
             \A i \in 1..n :
                 Ok(out[p].blocks[i], Raw[p].blocks[f[i]], Raw[p].width, Raw[p].height)

SameShape(ob, rb) ==
    /\ Len(ob.lines) = Len(rb.lines)
    /\ \A l \in 1..Len(rb.lines) : Len(ob.lines[l].spans) = Len(rb.lines[l].spans)

BoxesScaledOnce(ob, rb, w, h) ==
    /\ SameShape(ob, rb)
    /\ ob.bbox = PixelBox(rb.bbox, w, h)
    /\ \A l \in 1..Len(rb.lines) :
          /\ ob.lines[l].bbox = PixelBox(rb.lines[l].bbox, w, h)
          /\ \A k \in 1..Len(rb.lines[l].spans) :
                LET os == ob.lines[l].spans[k]
                    rs == rb.lines[l].spans[k]
                IN /\ os.bbox = PixelBox(rs.bbox, w, h)
                   /\ "chars" \in DOMAIN os =>
                         /\ Len(os.chars) = Len(rs.chars)
                         /\ \A c \in 1..Len(rs.chars) :
                               os.chars[c].bbox = PixelBox(rs.chars[c].bbox, w, h)

\* C8: in every page dictionary_output is through with, the bbox of each
\* block, line and span, and of each char still present, is the raw bbox scaled
\* once by that page's own width and height, for both values of keep_chars and
\* of sort.
C8_EveryBboxScaledOnce ==
    \A p \in Assembled : PageMatches(p, BoxesScaledOnce)

\* C8 witness: two pages of different sizes returned with chars kept and blocks
\* sorted into another order than the model's
C8_Witness ==
    /\ pc = "done"
    /\ keep_chars
    /\ sort
    /\ Len(out) = 2
    /\ Len(out[2].blocks) = 2
    /\ Len(out[1].blocks) >= 1
    /\ out[2].blocks[1].bbox # PixelBox(Raw[2].blocks[1].bbox, Raw[2].width, Raw[2].height)
    /\ \E l \in DOMAIN out[1].blocks[1].lines : out[1].blocks[1].lines[l].spans[1].chars # <<>>

SpanKeys == IF keep_chars THEN {"bbox", "text", "chars"} ELSE {"bbox", "text"}

OnlyAllowedFields(ob, rb, w, h) ==
    /\ DOMAIN ob \subseteq {"bbox", "lines"}
    /\ \A l \in DOMAIN ob.lines :
          /\ DOMAIN ob.lines[l] \subseteq {"bbox", "spans"}
          /\ \A k \in DOMAIN ob.lines[l].spans :
                DOMAIN ob.lines[l].spans[k] \subseteq SpanKeys

\* C9: in every page dictionary_output is through with, blocks carry only bbox
\* and lines, lines only bbox and spans, and spans only bbox, text and (when
\* kept) chars, whatever transient fields the model attached.
C9_NoFieldOutsideAllowedSet ==
    \A p \in Assembled : PageMatches(p, OnlyAllowedFields)

BlocksLinesPrunedSpansKept(ob, rb, w, h) ==
    /\ SameShape(ob, rb)
    /\ DOMAIN ob = {"bbox", "lines"}
    /\ \A l \in 1..Len(rb.lines) :
          /\ DOMAIN ob.lines[l] = {"bbox", "spans"}
          /\ \A k \in 1..Len(rb.lines[l].spans) :
                LET os == ob.lines[l].spans[k]
                    rs == rb.lines[l].spans[k]
                IN /\ DOMAIN os = (DOMAIN rs) \ (IF keep_chars THEN {} ELSE {"chars"})
                   /\ \A key \in (DOMAIN rs) \ {"bbox", "text", "chars"} : os[key] = rs[key]

\* C9 as amended: blocks carry only bbox and lines and lines only bbox and
\* spans; a span is not pruned: it carries bbox, text, chars when kept, and
\* every other field the model attached to it, unchanged.
C9_BlocksAndLinesPrunedSpansNot ==
    \A p \in Assembled : PageMatches(p, BlocksLinesPrunedSpansKept)

\* C9 witness: a returned page whose raw block and line carried transient
\* fields and whose span still carries the font the model attached
C9_Witness ==
    /\ pc = "done"
    /\ Len(out) >= 1
    /\ Len(out[1].blocks) >= 1
    /\ "block_type" \in DOMAIN Raw[1].blocks[1]
    /\ "words" \in DOMAIN Raw[1].blocks[1].lines[1]
    /\ "block_type" \notin DOMAIN out[1].blocks[1]
    /\ "font" \in DOMAIN out[1].blocks[1].lines[1].spans[1]

CharsDroppedOrKept(ob, rb, w, h) ==
    /\ SameShape(ob, rb)
    /\ \A l \in 1..Len(rb.lines) :
          \A k \in 1..Len(rb.lines[l].spans) :
              LET os == ob.lines[l].spans[k]
                  rs == rb.lines[l].spans[k]
              IN IF ~keep_chars
                 THEN "chars" \notin DOMAIN os
                 ELSE /\ "chars" \in DOMAIN os
                      /\ Len(os.chars) = Len(rs.chars)
                      /\ \A c \in 1..Len(rs.chars) :
                            /\ DOMAIN os.chars[c] = DOMAIN rs.chars[c]
                            /\ \A key \in (DOMAIN rs.chars[c]) \ {"bbox"} :
                                  os.chars[c][key] = rs.chars[c][key]
                            /\ os.chars[c].bbox = PixelBox(rs.chars[c].bbox, w, h)

\* C10: in every page dictionary_output is through with, a span has no chars
\* field when keep_chars is false, and when it is true keeps the same chars in
\* the same order, each with its bbox scaled by the page's width and height.
C10_CharsDroppedOrKeptInOrder ==
    \A p \in Assembled : PageMatches(p, CharsDroppedOrKept)

\* C10 witness: chars kept, and a returned span holds two different chars
C10_Witness ==
    /\ pc = "done"
    /\ keep_chars
    /\ \E p \in DOMAIN out : \E b \in DOMAIN out[p].blocks :
          \E l \in DOMAIN out[p].blocks[b].lines :
              \E k \in DOMAIN out[p].blocks[b].lines[l].spans :
                  LET cs == out[p].blocks[b].lines[l].spans[k].chars
                  IN Len(cs) = 2 /\ cs[1].char # cs[2].char

====
